---- MODULE Spec2Model ----
(***************************************************************************)
(* A model of upscayv.py: the frame pipeline of run_upscale (folder        *)
(* initialisation, frame extraction, model and worker selection, the       *)
(* parallel dispatch loop over a ProcessPoolExecutor, the aggregate        *)
(* failure report, the re-encode step and the final cleanup) and the       *)
(* encoder prober detect_video_encoder / test_encoder.                     *)
(*                                                                         *)
(* Frames are numbered 1..N in the order of the sorted frame_files list.   *)
(* In the pipeline a text (stderr, an exception message) is a run of one   *)
(* character, [ch, len], and slicing keeps the first characters of the     *)
(* run.  In the prober, where substrings are searched, a string is the     *)
(* sequence of its character codes.                                        *)
(*                                                                         *)
(* Spec / FairSpec explore run_upscale after a probe that chose libx264    *)
(* (the encoder only selects the parameters of the re-encode command);     *)
(* SpecProbe / FairSpecProbe explore detect_video_encoder.                 *)
(* SpecStale is Spec restricted to the runs that find files of an earlier  *)
(* run.  SpecMain follows the script from its import through the tool      *)
(* checks and the prober into run_upscale, up to the initial batch.        *)
(* SpecWorkers applies calculate_optimal_workers, SpecPrompt the           *)
(* worker-count prompt, and SpecFit the resolution fit of run_upscale      *)
(* (with the double arithmetic of the code), to every input of a bounded   *)
(* range.                                                                  *)
(***************************************************************************)
EXTENDS Integers, Sequences, FiniteSets, TLC

(* ---------------------------------------------------------------------- *)
(* Bounds of the model                                                     *)
(* ---------------------------------------------------------------------- *)
MaxFrames == 3
MaxCpu == 1
MaxWorkerInput == 2
MaxGpu == 2
MaxModels == 2
\* the runs explored have frame_files * num_workers <= MaxLoad
MaxLoad == 4
\* arguments of calculate_optimal_workers explored on its own
MaxCores == 20
MaxAccel == 10
\* source sizes explored by the resolution fit: 1..MaxDim in both axes
MaxDim == 24
\* largest number entered at the worker-count prompt explored on its own
MaxEntered == 12

(* ---------------------------------------------------------------------- *)
(* Program constants                                                       *)
(* ---------------------------------------------------------------------- *)
\* error_msg shows at most this many failure records (failed_frames[:5])
ReportShown == 5
\* each shown record carries fail['stderr'][:100]
StderrShown == 100
\* initial batch: num_workers * 2
BatchFactor == 2
\* calculate_optimal_workers: global ceiling
WorkerCeiling == 8

VARIABLES
    pc,               \* position of the controlling process in run_upscale
    outcome,          \* how the run ended (or "running")
    dirs,             \* which of TEMP_DIR / UPSCALED_DIR exist on disk
    created,          \* this run has executed both os.makedirs calls
    temp_files,       \* frame files present in TEMP_DIR
    upscaled_files,   \* frame files present in UPSCALED_DIR
    VIDEO_ENCODER,    \* the global set by __main__ before run_upscale
    frame_files,      \* len(frame_files)
    num_workers,      \* max_workers of the pool
    futures,          \* every task submitted to the pool, in submission order
    future_to_frame,  \* the dict of in-flight futures (their ids)
    work_queue,       \* number of items already taken from iter(work_args)
    pending_count,
    completed_count,
    pbar,             \* progress bar position
    failed_frames,    \* list of failure records
    error_msg,        \* the aggregate failure report raised, or NoReport
    merged,           \* the re-encode subprocess has been started
    probe_pc,         \* position inside detect_video_encoder
    listing,          \* result of the encoder-listing subprocess
    test_runs,        \* the test encodes started by test_encoder, in order
    main_pc,          \* position of the script between import and exit
    exit_status,      \* exit status of the process, "none" while it runs
    UPSCAYL_PATH,     \* the module-level global set by find_upscayl_path()
    ffmpeg_available, \* first component of check_ffmpeg()'s result
    worker_calc,      \* one call of calculate_optimal_workers: arguments, result
    res_fit,          \* one run of the resolution fit: inputs, final size
    worker_prompt     \* one run of the worker-count prompt: inputs, count used

vars == <<pc, outcome, dirs, created, temp_files, upscaled_files, VIDEO_ENCODER,
          frame_files, num_workers, futures, future_to_frame, work_queue,
          pending_count, completed_count, pbar, failed_frames,
          error_msg, merged, probe_pc, listing, test_runs,
          main_pc, exit_status, UPSCAYL_PATH, ffmpeg_available,
          worker_calc, res_fit, worker_prompt>>

ProbeVars == <<probe_pc, listing, test_runs>>
MainVars == <<main_pc, exit_status, UPSCAYL_PATH, ffmpeg_available>>
CallVars == <<worker_calc, res_fit, worker_prompt>>

Min(a, b) == IF a < b THEN a ELSE b
Max(a, b) == IF a > b THEN a ELSE b

(* ---------------------------------------------------------------------- *)
(* Texts                                                                   *)
(* ---------------------------------------------------------------------- *)
Text(c, n) == [ch |-> c, len |-> n]
\* s[:n]
Prefix(s, n) == [s EXCEPT !.len = Min(s.len, n)]

EmptyText == Text("", 0)
LongErr == Text("E", StderrShown + 1)
ExcText == Text("x", 7)
\* f"... {result['output_path']}": a fixed message followed by the path
MissingText(frame) == Text("m", 22 + 16)

(* ---------------------------------------------------------------------- *)
(* calculate_optimal_workers                                               *)
(* ---------------------------------------------------------------------- *)
\* (variant: half of the cores instead of three quarters)
cpu_share_half(cpu_count) == Max(1, cpu_count \div 2)

\* line 344: max(1, int(cpu_count * 0.75)); 0.75 is a binary fraction, so the
\* product is exact and int() gives floor(3 * cpu_count / 4)
cpu_share(cpu_count) == Max(1, (cpu_count * 3) \div 4)

\* (variant: no minimum with an accelerator)
gpu_floor_absent(recommended) == recommended

\* line 340: recommended = max(2, recommended)
gpu_floor(recommended) == Max(2, recommended)

\* (variant: only the global ceiling is applied)
cap_workers_ceiling_only(recommended, cpu_count) == Min(recommended, WorkerCeiling)

\* line 347: recommended = min(recommended, cpu_count, 8)
cap_workers(recommended, cpu_count) == Min(Min(recommended, cpu_count), WorkerCeiling)

calculate_optimal_workers(cpu_count, gpu_count, has_gpu_encoder) ==
    LET base == IF gpu_count > 0
                THEN gpu_floor(IF gpu_count = 1
                               THEN Max(1, Min(cpu_count \div 2, 4))
                               ELSE Min(gpu_count, cpu_count))
                ELSE cpu_share(cpu_count)
    IN  cap_workers(base, cpu_count)

\* one call of the function: its arguments and, once it has returned, its result
Calc(c, g, e, r) ==
    [cpu_count |-> c, gpu_count |-> g, has_gpu_encoder |-> e, recommended |-> r]
\* no call in progress
NoCalc == Calc(0, 0, FALSE, 0)

\* one run of the resolution fit (lines 483-513): the source size, the target
\* box and, once fitted, the final size
Fit(W, H, tw, th, fw, fh, f) ==
    [width |-> W, height |-> H, target_w |-> tw, target_h |-> th,
     final_width |-> fw, final_height |-> fh, fitted |-> f]
NoFit == Fit(0, 0, 0, 0, 0, 0, FALSE)

(* ---------------------------------------------------------------------- *)
(* The worker-count prompt of run_upscale                                  *)
(* ---------------------------------------------------------------------- *)
WorkerInputs ==
    {[kind |-> k, n |-> 0] : k \in {"empty", "text", "interrupt"}}
        \cup {[kind |-> "int", n |-> k] : k \in (0 - 1)..MaxWorkerInput}
Confirms == {"y", "n", "interrupt"}

\* (variant: a count below 1 is accepted)
prompt_workers_no_minimum(recommended_workers, cpu_count, worker_input, confirm) ==
    IF worker_input.kind # "int"
    THEN recommended_workers
    ELSE IF worker_input.n > cpu_count * 2
         THEN (IF confirm = "y" THEN worker_input.n ELSE recommended_workers)
         ELSE worker_input.n

prompt_workers(recommended_workers, cpu_count, worker_input, confirm) ==
    IF worker_input.kind # "int"
    THEN recommended_workers
    ELSE IF worker_input.n < 1
         THEN recommended_workers
         ELSE IF worker_input.n > cpu_count * 2
              THEN (IF confirm = "y" THEN worker_input.n ELSE recommended_workers)
              ELSE worker_input.n

\* one run of the prompt (lines 583-618): what the machine has, what the
\* user enters and, once the prompt is over, the recommendation and the
\* worker count used
Prompt(c, g, i, cf, r, n) ==
    [cpu_count |-> c, gpu_count |-> g, worker_input |-> i, confirm |-> cf,
     recommended_workers |-> r, num_workers |-> n]
NoPrompt == Prompt(0, 0, [kind |-> "empty", n |-> 0], "n", 0, 0)

(* ---------------------------------------------------------------------- *)
(* cleanup                                                                 *)
(* ---------------------------------------------------------------------- *)
NoDirs == [temp |-> FALSE, upscaled |-> FALSE]
BothDirs == [temp |-> TRUE, upscaled |-> TRUE]

\* (variant: only TEMP_DIR is removed)
cleanup_temp_only(d) == [temp |-> FALSE, upscaled |-> d.upscaled]

\* (variant: only UPSCALED_DIR is removed)
cleanup_upscaled_only(d) == [temp |-> d.temp, upscaled |-> FALSE]

\* if os.path.exists(D): shutil.rmtree(D), for both directories
cleanup(d) == [temp |-> IF d.temp THEN FALSE ELSE d.temp,
               upscaled |-> IF d.upscaled THEN FALSE ELSE d.upscaled]

(* ---------------------------------------------------------------------- *)
(* upscale_single_frame: what one invocation can produce                   *)
(* ---------------------------------------------------------------------- *)
Result(ex, rc, err, w) == [raised |-> ex, returncode |-> rc, stderr |-> err, wrote |-> w]
NoResult == Result(FALSE, 0, EmptyText, FALSE)
Outcomes ==
    { Result(FALSE, 0, EmptyText, TRUE),     \* success, destination written
      Result(FALSE, 0, EmptyText, FALSE),    \* exit code 0, nothing written
      Result(FALSE, 1, LongErr, FALSE),      \* non-zero exit, nothing written
      Result(TRUE, 0, ExcText, FALSE) }      \* the call raised in the worker

\* A submitted call: "pending" (queued or running), "finished" (its future is
\* done) or "collected" (the controller has taken its result); seen records
\* whether the destination file existed when the result was examined.
Task(f) == [frame |-> f, st |-> "pending", out |-> NoResult, seen |-> FALSE]

(* ---------------------------------------------------------------------- *)
(* The dispatch loop of run_upscale                                        *)
(* ---------------------------------------------------------------------- *)
\* (variant: the whole list is submitted up front)
initial_batch_size_all(W, N) == N

\* (variant: three times the worker count is submitted up front)
initial_batch_size_triple(W, N) == Min(W * 3, N)

\* initial_batch_size = min(num_workers * 2, len(work_args))
initial_batch_size(W, N) == Min(W * BatchFactor, N)

\* work_queue = iter(work_args): a fresh iterator over the whole list
work_queue_start(batch) == 0

\* (variant: the loop stops while one future is still in flight)
loop_continues_early_exit(ftf) == Cardinality(ftf) > 1

\* while future_to_frame:
loop_continues(ftf) == ftf # {}

\* (variant: the except clause does not submit the next item)
submits_replacement_unless_raised(result, taken, total) ==
    ~result.raised /\ taken < total

\* lines 711-718 and 729-736: next(work_queue) is tried after a result and
\* after an exception alike; StopIteration means nothing is submitted
submits_replacement(result, taken, total) == taken < total

\* (variant: the collected future stays in the dict)
pop_future_kept(ftf, t) == ftf

\* (variant: the except clause does not move the progress bar)
pbar_update_skips_raised(result, n) == IF result.raised THEN n ELSE n + 1

\* lines 708 and 727: pbar.update(1) after a result and after an exception
pbar_update(result, n) == n + 1

\* future_to_frame.pop(future)
pop_future(ftf, t) == ftf \ {t}

\* (variant: the output file is not looked for)
frame_failures_exit_code_only(frame_file, result, exists) ==
    IF result.raised \/ result.returncode # 0
    THEN << [frame |-> frame_file,
             returncode |-> IF result.raised THEN 0 - 1 ELSE result.returncode,
             stderr |-> result.stderr] >>
    ELSE << >>

\* the failure records one collection appends to failed_frames
frame_failures(frame_file, result, exists) ==
    IF result.raised
    THEN << [frame |-> frame_file, returncode |-> 0 - 1, stderr |-> result.stderr] >>
    ELSE (IF result.returncode # 0
          THEN << [frame |-> frame_file, returncode |-> result.returncode,
                   stderr |-> result.stderr] >>
          ELSE << >>)
         \o
         (IF ~exists
          THEN << [frame |-> frame_file, returncode |-> 0 - 1,
                   stderr |-> MissingText(frame_file)] >>
          ELSE << >>)

\* (variant: a single failure record is tolerated)
has_failures_tolerant(ff) == Len(ff) > 1

\* if failed_frames:
has_failures(ff) == Len(ff) > 0

\* error_msg: the count, the first records (frame, stderr[:100]), and the rest counted
NoReport == [count |-> 0, lines |-> << >>, more |-> 0]
\* (variant: the diagnostic text is cut one character short)
build_error_msg_short(ff) ==
    [count |-> Len(ff),
     lines |-> [i \in 1..Min(Len(ff), ReportShown) |->
                   [frame |-> ff[i].frame,
                    text |-> Prefix(ff[i].stderr, StderrShown - 1)]],
     more  |-> IF Len(ff) > ReportShown THEN Len(ff) - ReportShown ELSE 0]

build_error_msg(ff) ==
    [count |-> Len(ff),
     lines |-> [i \in 1..Min(Len(ff), ReportShown) |->
                   [frame |-> ff[i].frame, text |-> Prefix(ff[i].stderr, StderrShown)]],
     more  |-> IF Len(ff) > ReportShown THEN Len(ff) - ReportShown ELSE 0]

Unfinished == {t \in DOMAIN futures : futures[t].st = "pending"}
\* The pool runs calls in submission order, at most num_workers at a time.
Running == {t \in Unfinished : Cardinality({u \in Unfinished : u < t}) < num_workers}
Collected == {t \in DOMAIN futures : futures[t].st = "collected"}
Submissions(f) == Cardinality({t \in DOMAIN futures : futures[t].frame = f})

(* ---------------------------------------------------------------------- *)
(* Strings of the encoder prober: sequences of character codes             *)
(* ---------------------------------------------------------------------- *)
\* str.lower() on the letters A-Z
Lower(s) == [i \in 1..Len(s) |-> IF s[i] \in 65..90 THEN s[i] + 32 ELSE s[i]]

\* needle in hay
Contains(needle, hay) ==
    \E i \in 0..(Len(hay) - Len(needle)) : SubSeq(hay, i + 1, i + Len(needle)) = needle

\* 'h264_nvenc'
NVENC ==
    <<104, 50, 54, 52, 95, 110, 118, 101, 110, 99>>

\* 'h264_amf'
AMF ==
    <<104, 50, 54, 52, 95, 97, 109, 102>>

\* 'No NVENC capable devices found'
Kw_NoNvencCapableDevicesFound ==
    <<78, 111, 32, 78, 86, 69, 78, 67, 32, 99, 97, 112, 97, 98, 108,
      101, 32, 100, 101, 118, 105, 99, 101, 115, 32, 102, 111, 117,
      110, 100>>

\* 'No capable devices found'
Kw_NoCapableDevicesFound ==
    <<78, 111, 32, 99, 97, 112, 97, 98, 108, 101, 32, 100, 101, 118,
      105, 99, 101, 115, 32, 102, 111, 117, 110, 100>>

\* 'NVENC not available'
Kw_NvencNotAvailable ==
    <<78, 86, 69, 78, 67, 32, 110, 111, 116, 32, 97, 118, 97, 105, 108,
      97, 98, 108, 101>>

\* 'Cannot load'
Kw_CannotLoad ==
    <<67, 97, 110, 110, 111, 116, 32, 108, 111, 97, 100>>

\* 'No such filter'
Kw_NoSuchFilter ==
    <<78, 111, 32, 115, 117, 99, 104, 32, 102, 105, 108, 116, 101, 114>>

\* 'not found'
Kw_NotFound ==
    <<110, 111, 116, 32, 102, 111, 117, 110, 100>>

\* 'unable to find'
Kw_UnableToFind ==
    <<117, 110, 97, 98, 108, 101, 32, 116, 111, 32, 102, 105, 110, 100>>

\* 'AMF not available'
Kw_AmfNotAvailable ==
    <<65, 77, 70, 32, 110, 111, 116, 32, 97, 118, 97, 105, 108, 97, 98,
      108, 101>>

\* 'Failed to initialize'
Kw_FailedToInitialize ==
    <<70, 97, 105, 108, 101, 100, 32, 116, 111, 32, 105, 110, 105, 116,
      105, 97, 108, 105, 122, 101>>

\* 'AMF runtime'
Kw_AmfRuntime ==
    <<65, 77, 70, 32, 114, 117, 110, 116, 105, 109, 101>>

nvenc_errors ==
    {Kw_NoNvencCapableDevicesFound,
     Kw_NoCapableDevicesFound,
     Kw_NvencNotAvailable,
     Kw_CannotLoad,
     Kw_NoSuchFilter,
     Kw_NotFound,
     Kw_UnableToFind}

amf_errors ==
    {Kw_NoCapableDevicesFound,
     Kw_AmfNotAvailable,
     Kw_CannotLoad,
     Kw_NoSuchFilter,
     Kw_FailedToInitialize,
     Kw_AmfRuntime}

\* What `ffmpeg -hide_banner -encoders` may print

\* ' V..... libx264\n'
OutNone ==
    <<32, 86, 46, 46, 46, 46, 46, 32, 108, 105, 98, 120, 50, 54, 52,
      10>>

\* ' V..... h264_nvenc\n'
OutNvenc ==
    <<32, 86, 46, 46, 46, 46, 46, 32, 104, 50, 54, 52, 95, 110, 118,
      101, 110, 99, 10>>

\* ' V..... h264_amf\n'
OutAmf ==
    <<32, 86, 46, 46, 46, 46, 46, 32, 104, 50, 54, 52, 95, 97, 109,
      102, 10>>

\* ' V..... h264_amf\n V..... h264_nvenc\n'
OutBoth ==
    <<32, 86, 46, 46, 46, 46, 46, 32, 104, 50, 54, 52, 95, 97, 109,
      102, 10, 32, 86, 46, 46, 46, 46, 46, 32, 104, 50, 54, 52, 95,
      110, 118, 101, 110, 99, 10>>

\* ' V..... H264_NVENC\n'
OutUpper ==
    <<32, 86, 46, 46, 46, 46, 46, 32, 72, 50, 54, 52, 95, 78, 86, 69,
      78, 67, 10>>

Stdouts == {OutNone, OutNvenc, OutAmf, OutBoth, OutUpper}

\* What a test encode may print on stderr

\* 'frame=    1 fps=0.0\n'
ErrQuiet ==
    <<102, 114, 97, 109, 101, 61, 32, 32, 32, 32, 49, 32, 102, 112,
      115, 61, 48, 46, 48, 10>>

\* '[h264] No capable devices found\n'
ErrNoDevice ==
    <<91, 104, 50, 54, 52, 93, 32, 78, 111, 32, 99, 97, 112, 97, 98,
      108, 101, 32, 100, 101, 118, 105, 99, 101, 115, 32, 102, 111,
      117, 110, 100, 10>>

\* 'CANNOT LOAD nvcuda.dll\n'
ErrUpper ==
    <<67, 65, 78, 78, 79, 84, 32, 76, 79, 65, 68, 32, 110, 118, 99,
      117, 100, 97, 46, 100, 108, 108, 10>>

\* 'amf runtime is missing\n'
ErrAmfRuntime ==
    <<97, 109, 102, 32, 114, 117, 110, 116, 105, 109, 101, 32, 105,
      115, 32, 109, 105, 115, 115, 105, 110, 103, 10>>

\* 'Encoder NOT FOUND\n'
ErrNotFound ==
    <<69, 110, 99, 111, 100, 101, 114, 32, 78, 79, 84, 32, 70, 79, 85,
      78, 68, 10>>

\* 'cannot  load\n'
ErrNearMiss ==
    <<99, 97, 110, 110, 111, 116, 32, 32, 108, 111, 97, 100, 10>>

Stderrs == {ErrQuiet, ErrNoDevice, ErrUpper, ErrAmfRuntime, ErrNotFound, ErrNearMiss}

(* ---------------------------------------------------------------------- *)
(* test_encoder and detect_video_encoder                                   *)
(* ---------------------------------------------------------------------- *)
\* A subprocess.run call: raised is "no", "timeout" (TimeoutExpired) or
\* "error" (FileNotFoundError or any other exception).
Listing(ex, rc, out) == [raised |-> ex, returncode |-> rc, stdout |-> out]
Listings ==
    {Listing("no", 0, o) : o \in Stdouts}
        \cup {Listing("no", 1, o) : o \in {OutNone, OutBoth}}
        \cup {Listing(ex, 0, << >>) : ex \in {"timeout", "error"}}

TestRun(ex, rc, err) == [raised |-> ex, returncode |-> rc, stderr |-> err]
TestRuns ==
    {TestRun("no", rc, e) : rc \in {0, 1}, e \in Stderrs}
        \cup {TestRun(ex, 0, << >>) : ex \in {"timeout", "error"}}

\* (variant: the diagnostic output is not lower-cased before the search)
test_encoder_case_sensitive(encoder_name, error_keywords, run) ==
    /\ run.raised = "no"
    /\ run.returncode = 0
    /\ ~\E err \in error_keywords : Contains(Lower(err), run.stderr)

\* lines 128-193: True only for exit code 0 with no keyword in stderr.lower()
test_encoder(encoder_name, error_keywords, run) ==
    /\ run.raised = "no"
    /\ run.returncode = 0
    /\ ~\E err \in error_keywords : Contains(Lower(err), Lower(run.stderr))

\* (variant: the encoder name is searched for without regard to case)
advertised_any_case(encoder_name, stdout) == Contains(Lower(encoder_name), Lower(stdout))

\* 'h264_nvenc' in result.stdout
advertised(encoder_name, stdout) == Contains(encoder_name, stdout)

\* (variant: the return after a passed NVENC test is missing)
after_nvenc_fall_through(passed) == "amf"

\* lines 222-232: a passed test returns, a failed one goes on to AMF
after_nvenc(passed) == IF passed THEN "done" ELSE "amf"

\* lines 251-257: a passed test returns, a failed one goes on to the fallback
after_amf(passed) == IF passed THEN "done" ELSE "fallback"

\* (variant: the exit code of the listing command is not looked at)
after_listing_ignores_exit(r) == IF r.raised # "no" THEN "fallback" ELSE "nvenc"

\* lines 197-208 and 259-261: an exception of the listing command is caught
\* and leads to the fallback; a non-zero exit returns libx264 at once
after_listing(r) ==
    IF r.raised # "no" THEN "fallback"
    ELSE IF r.returncode # 0 THEN "done" ELSE "nvenc"

PipeVars == <<pc, outcome, dirs, created, temp_files, upscaled_files, frame_files,
              num_workers, futures, future_to_frame, work_queue, pending_count,
              completed_count, pbar, failed_frames, error_msg, merged>>

\* lines 197-208: list the encoders; an exception goes to the except clause
\* and from there to the fallback, a non-zero exit returns libx264 at once
ListEncoders ==
    /\ probe_pc = "list"
    /\ \E r \in Listings :
          /\ listing' = r
          /\ probe_pc' = after_listing(r)
          /\ VIDEO_ENCODER' = IF after_listing(r) = "done"
                              THEN "libx264" ELSE VIDEO_ENCODER
    /\ UNCHANGED <<MainVars, CallVars, PipeVars, test_runs>>

\* lines 210-237
ProbeNvenc ==
    /\ probe_pc = "nvenc"
    /\ IF advertised(NVENC, listing.stdout)
       THEN \E run \in TestRuns :
               LET passed == test_encoder("h264_nvenc", nvenc_errors, run)
               IN  /\ test_runs' = Append(test_runs, [encoder |-> "h264_nvenc", run |-> run])
                   /\ probe_pc' = after_nvenc(passed)
                   /\ VIDEO_ENCODER' = IF after_nvenc(passed) = "done"
                                       THEN "h264_nvenc" ELSE VIDEO_ENCODER
       ELSE /\ probe_pc' = "amf"
            /\ UNCHANGED <<test_runs, VIDEO_ENCODER>>
    /\ UNCHANGED <<MainVars, CallVars, PipeVars, listing>>

\* lines 239-257
ProbeAmf ==
    /\ probe_pc = "amf"
    /\ IF advertised(AMF, listing.stdout)
       THEN \E run \in TestRuns :
               LET passed == test_encoder("h264_amf", amf_errors, run)
               IN  /\ test_runs' = Append(test_runs, [encoder |-> "h264_amf", run |-> run])
                   /\ probe_pc' = after_amf(passed)
                   /\ VIDEO_ENCODER' = IF after_amf(passed) = "done"
                                       THEN "h264_amf" ELSE VIDEO_ENCODER
       ELSE /\ probe_pc' = "fallback"
            /\ UNCHANGED <<test_runs, VIDEO_ENCODER>>
    /\ UNCHANGED <<MainVars, CallVars, PipeVars, listing>>

\* lines 263-265
Fallback ==
    /\ probe_pc = "fallback"
    /\ VIDEO_ENCODER' = "libx264"
    /\ probe_pc' = "done"
    /\ UNCHANGED <<MainVars, CallVars, PipeVars, listing, test_runs>>

InitProbe ==
    /\ probe_pc = "list"
    /\ listing = Listing("no", 0, << >>)
    /\ test_runs = << >>
    /\ VIDEO_ENCODER = "None"
    /\ main_pc = "detect"
    /\ exit_status = "none"
    /\ UPSCAYL_PATH = "found"
    /\ ffmpeg_available = TRUE
    /\ worker_calc = NoCalc
    /\ res_fit = NoFit
    /\ worker_prompt = NoPrompt
    /\ pc = "idle"
    /\ outcome = "running"
    /\ dirs = NoDirs
    /\ created = FALSE
    /\ temp_files = {}
    /\ upscaled_files = {}
    /\ frame_files = 0
    /\ num_workers = 0
    /\ futures = << >>
    /\ future_to_frame = {}
    /\ work_queue = 0
    /\ pending_count = 0
    /\ completed_count = 0
    /\ pbar = 0
    /\ failed_frames = << >>
    /\ error_msg = NoReport
    /\ merged = FALSE

NextProbe ==
    \/ ListEncoders
    \/ ProbeNvenc
    \/ ProbeAmf
    \/ Fallback

SpecProbe == InitProbe /\ [][NextProbe]_vars

\* every subprocess call of the prober has a timeout (5 s, 10 s)
FairSpecProbe == SpecProbe /\ WF_vars(NextProbe)

(* ---------------------------------------------------------------------- *)
(* run_upscale                                                             *)
(* ---------------------------------------------------------------------- *)
Encoders == {"h264_nvenc", "h264_amf", "libx264"}

\* Directories and files a previous run may have left behind.
Leftovers == {<<FALSE, {}>>, <<TRUE, {}>>, <<TRUE, {1}>>}

Init ==
    /\ pc = "select"
    /\ outcome = "running"
    /\ \E t \in Leftovers, u \in Leftovers :
          /\ dirs = [temp |-> t[1], upscaled |-> u[1]]
          /\ temp_files = t[2]
          /\ upscaled_files = u[2]
    /\ created = FALSE
    /\ VIDEO_ENCODER = "libx264"
    /\ frame_files = 0
    /\ num_workers = 0
    /\ futures = << >>
    /\ future_to_frame = {}
    /\ work_queue = 0
    /\ pending_count = 0
    /\ completed_count = 0
    /\ pbar = 0
    /\ failed_frames = << >>
    /\ error_msg = NoReport
    /\ merged = FALSE
    /\ probe_pc = "done"
    /\ listing = Listing("no", 1, << >>)
    /\ test_runs = << >>
    /\ main_pc = "run"
    /\ exit_status = "none"
    /\ UPSCAYL_PATH = "found"
    /\ ffmpeg_available = TRUE
    /\ worker_calc = NoCalc
    /\ res_fit = NoFit
    /\ worker_prompt = NoPrompt

PoolVars == <<futures, future_to_frame, work_queue, pending_count, completed_count,
              pbar, failed_frames>>
DiskVars == <<dirs, created, temp_files, upscaled_files>>

\* lines 463-518: pick the video, read its stream info, choose the resolution.
\* No .mp4 file: return. ffprobe output that cannot be parsed: the exception
\* leaves run_upscale (this part is outside the try block).
SelectVideo ==
    /\ pc = "select"
    /\ \E r \in {"ok", "no_video", "info_error"} :
          /\ pc' = IF r = "ok" THEN "folders" ELSE "done"
          /\ outcome' = IF r = "ok" THEN outcome
                        ELSE IF r = "no_video" THEN "no_video" ELSE "uncaught"
    /\ UNCHANGED <<MainVars, CallVars, ProbeVars, DiskVars, PoolVars, VIDEO_ENCODER, frame_files, num_workers,
                   error_msg, merged>>

\* lines 521-523: cleanup(); os.makedirs(TEMP_DIR); os.makedirs(UPSCALED_DIR)
InitFolders ==
    /\ pc = "folders"
    /\ dirs' = BothDirs
    /\ temp_files' = IF cleanup(dirs).temp THEN temp_files ELSE {}
    /\ upscaled_files' = IF cleanup(dirs).upscaled THEN upscaled_files ELSE {}
    /\ created' = TRUE
    /\ pc' = "extract"
    /\ UNCHANGED <<MainVars, CallVars, ProbeVars, PoolVars, outcome, VIDEO_ENCODER, frame_files, num_workers,
                   error_msg, merged>>

\* line 528: ffmpeg writes frame_%05d.png; check=True raises on a non-zero exit
ExtractFrames ==
    /\ pc = "extract"
    /\ \E n \in 0..MaxFrames, ok \in BOOLEAN :
          /\ temp_files' = temp_files \cup (1..n)
          /\ pc' = IF ok THEN "models" ELSE "except"
    /\ UNCHANGED <<MainVars, CallVars, ProbeVars, PoolVars, dirs, created, upscaled_files, outcome, VIDEO_ENCODER,
                   frame_files, num_workers, error_msg, merged>>

\* lines 534-547: no model: raise; one model: chosen automatically; else prompt
FindModels ==
    /\ pc = "models"
    /\ \E m \in 0..MaxModels :
          pc' = IF m = 0 THEN "except" ELSE IF m = 1 THEN "frames" ELSE "model_prompt"
    /\ UNCHANGED <<MainVars, CallVars, ProbeVars, DiskVars, PoolVars, outcome, VIDEO_ENCODER, frame_files,
                   num_workers, error_msg, merged>>

\* lines 554-569: the prompt repeats on a bad choice, returns on KeyboardInterrupt
ChooseModel ==
    /\ pc = "model_prompt"
    /\ \E choice \in {"valid", "out_of_range", "not_a_number", "interrupt"} :
          /\ pc' = CASE choice = "valid" -> "frames"
                     [] choice = "interrupt" -> "finally"
                     [] OTHER -> "model_prompt"
          /\ outcome' = IF choice = "interrupt" THEN "cancelled" ELSE outcome
    /\ UNCHANGED <<MainVars, CallVars, ProbeVars, DiskVars, PoolVars, VIDEO_ENCODER, frame_files, num_workers,
                   error_msg, merged>>

\* lines 574-576: frame_files = sorted(png files of TEMP_DIR); none: raise
ListFrames ==
    /\ pc = "frames"
    /\ frame_files' = Cardinality(temp_files)
    /\ pc' = IF temp_files = {} THEN "except" ELSE "workers"
    /\ UNCHANGED <<MainVars, CallVars, ProbeVars, DiskVars, PoolVars, outcome, VIDEO_ENCODER, num_workers,
                   error_msg, merged>>

\* lines 583-618: recommended worker count, then the prompt
ChooseWorkers ==
    /\ pc = "workers"
    /\ \E cpu_count \in 1..MaxCpu, gpu_count \in 0..MaxGpu,
          worker_input \in WorkerInputs, confirm \in Confirms :
          LET has_gpu_encoder == VIDEO_ENCODER \in {"h264_nvenc", "h264_amf"}
              recommended_workers ==
                  calculate_optimal_workers(cpu_count, gpu_count, has_gpu_encoder)
          IN  /\ num_workers' =
                    prompt_workers(recommended_workers, cpu_count, worker_input, confirm)
              /\ frame_files * num_workers' <= MaxLoad
    /\ pc' = "submit"
    /\ UNCHANGED <<MainVars, CallVars, ProbeVars, DiskVars, PoolVars, outcome, VIDEO_ENCODER, frame_files,
                   error_msg, merged>>

\* lines 652-671: the pool is created and the initial batch submitted
SubmitInitial ==
    /\ pc = "submit"
    /\ LET batch == initial_batch_size(num_workers, frame_files)
       IN  /\ futures' = [i \in 1..batch |-> Task(i)]
           /\ future_to_frame' = 1..batch
           /\ work_queue' = work_queue_start(batch)
           /\ pending_count' = batch
    /\ failed_frames' = << >>
    /\ completed_count' = 0
    /\ pbar' = 0
    /\ pc' = "dispatch"
    /\ UNCHANGED <<MainVars, CallVars, ProbeVars, DiskVars, outcome, VIDEO_ENCODER, frame_files,
                   num_workers, error_msg, merged>>

\* lines 351-386: upscale_single_frame returns (or raises) in its worker
WorkerFinish(t, o) ==
    /\ t \in Running
    /\ futures' = [futures EXCEPT ![t].st = "finished", ![t].out = o]
    /\ upscaled_files' = IF o.wrote THEN upscaled_files \cup {futures[t].frame}
                         ELSE upscaled_files
    /\ UNCHANGED <<MainVars, CallVars, ProbeVars, pc, outcome, dirs, created, temp_files, VIDEO_ENCODER, frame_files,
                   num_workers, future_to_frame, work_queue, pending_count,
                   completed_count, pbar, failed_frames, error_msg, merged>>

\* lines 673-739: one pass of the outer loop: the first future as_completed
\* yields is popped and examined, the next item of work_queue (if any) is
\* submitted, and the inner loop is left by break.
Collect(t) ==
    /\ pc = "dispatch"
    /\ loop_continues(future_to_frame)
    /\ t \in future_to_frame
    /\ futures[t].st = "finished"
    /\ LET frame_file == futures[t].frame
           result == futures[t].out
           exists == frame_file \in upscaled_files
           more == submits_replacement(result, work_queue, frame_files)
           next_id == Len(futures) + 1
           popped == pop_future(future_to_frame, t)
           done == [futures EXCEPT ![t].st = "collected", ![t].seen = exists]
       IN  /\ failed_frames' = failed_frames \o frame_failures(frame_file, result, exists)
           /\ completed_count' = IF result.raised THEN completed_count
                                 ELSE completed_count + 1
           /\ pbar' = pbar_update(result, pbar)
           /\ IF more
              THEN /\ futures' = Append(done, Task(work_queue + 1))
                   /\ future_to_frame' = popped \cup {next_id}
                   /\ work_queue' = work_queue + 1
                   /\ pending_count' = pending_count + 1
              ELSE /\ futures' = done
                   /\ future_to_frame' = popped
                   /\ UNCHANGED <<work_queue, pending_count>>
    /\ UNCHANGED <<MainVars, CallVars, ProbeVars, pc, outcome, DiskVars, VIDEO_ENCODER, frame_files, num_workers,
                   error_msg, merged>>

\* line 673: the loop ends when future_to_frame is empty; the pool is shut down
LoopExit ==
    /\ pc = "dispatch"
    /\ ~loop_continues(future_to_frame)
    /\ pc' = "drained"
    /\ UNCHANGED <<MainVars, CallVars, ProbeVars, outcome, DiskVars, PoolVars, VIDEO_ENCODER, frame_files,
                   num_workers, error_msg, merged>>

\* lines 742-748: any failure record: build the report and raise it
CheckFailed ==
    /\ pc = "drained"
    /\ IF has_failures(failed_frames)
       THEN /\ error_msg' = build_error_msg(failed_frames)
            /\ pc' = "except"
       ELSE /\ pc' = "merge"
            /\ UNCHANGED error_msg
    /\ UNCHANGED <<MainVars, CallVars, ProbeVars, outcome, DiskVars, PoolVars, VIDEO_ENCODER, frame_files,
                   num_workers, merged>>

\* lines 750-774: the re-encode subprocess; check=True raises on a non-zero exit
Merge ==
    /\ pc = "merge"
    /\ merged' = TRUE
    /\ \E ok \in BOOLEAN :
          /\ pc' = IF ok THEN "finally" ELSE "except"
          /\ outcome' = IF ok THEN "success" ELSE outcome
    /\ UNCHANGED <<MainVars, CallVars, ProbeVars, DiskVars, PoolVars, VIDEO_ENCODER, frame_files, num_workers,
                   error_msg>>

\* an exception raised by any other statement of the try block before the pool
UnexpectedError ==
    /\ pc \in {"models", "frames", "workers"}
    /\ pc' = "except"
    /\ UNCHANGED <<MainVars, CallVars, ProbeVars, outcome, DiskVars, PoolVars, VIDEO_ENCODER, frame_files,
                   num_workers, error_msg, merged>>

\* lines 776-777: except Exception as e: print
Except ==
    /\ pc = "except"
    /\ outcome' = "error"
    /\ pc' = "finally"
    /\ UNCHANGED <<MainVars, CallVars, ProbeVars, DiskVars, PoolVars, VIDEO_ENCODER, frame_files, num_workers,
                   error_msg, merged>>

\* lines 778-780: finally: cleanup()
Finally ==
    /\ pc = "finally"
    /\ dirs' = cleanup(dirs)
    /\ temp_files' = IF cleanup(dirs).temp THEN temp_files ELSE {}
    /\ upscaled_files' = IF cleanup(dirs).upscaled THEN upscaled_files ELSE {}
    /\ pc' = "done"
    /\ UNCHANGED <<MainVars, CallVars, ProbeVars, created, PoolVars, outcome, VIDEO_ENCODER, frame_files,
                   num_workers, error_msg, merged>>

Controller ==
    \/ SelectVideo
    \/ InitFolders
    \/ ExtractFrames
    \/ FindModels
    \/ ChooseModel
    \/ ListFrames
    \/ ChooseWorkers
    \/ SubmitInitial
    \/ \E t \in DOMAIN futures : Collect(t)
    \/ LoopExit
    \/ CheckFailed
    \/ Merge
    \/ UnexpectedError
    \/ Except
    \/ Finally

Workers == \E t \in DOMAIN futures, o \in Outcomes : WorkerFinish(t, o)

Next == Controller \/ Workers

Spec == Init /\ [][Next]_vars

\* The controller is never suspended, and every call handed to the pool
\* returns or raises (upscale_single_frame has no loop of its own).
FairSpec == Spec /\ WF_vars(Controller) /\ WF_vars(Workers)

\* The runs that find a file of an earlier run in TEMP_DIR or UPSCALED_DIR.
InitStale == Init /\ (temp_files # {} \/ upscaled_files # {})

SpecStale == InitStale /\ [][Next]_vars

(* ---------------------------------------------------------------------- *)
(* States in which neither the prober nor run_upscale has started          *)
(* ---------------------------------------------------------------------- *)
NothingStarted ==
    /\ pc = "idle"
    /\ outcome = "running"
    /\ created = FALSE
    /\ VIDEO_ENCODER = "None"
    /\ frame_files = 0
    /\ num_workers = 0
    /\ futures = << >>
    /\ future_to_frame = {}
    /\ work_queue = 0
    /\ pending_count = 0
    /\ completed_count = 0
    /\ pbar = 0
    /\ failed_frames = << >>
    /\ error_msg = NoReport
    /\ merged = FALSE
    /\ probe_pc = "idle"
    /\ listing = Listing("no", 0, << >>)
    /\ test_runs = << >>

CleanDisk ==
    /\ dirs = NoDirs
    /\ temp_files = {}
    /\ upscaled_files = {}

(* ---------------------------------------------------------------------- *)
(* calculate_optimal_workers as a function of its arguments                *)
(* ---------------------------------------------------------------------- *)
InitWorkers ==
    /\ NothingStarted
    /\ CleanDisk
    /\ main_pc = "run"
    /\ exit_status = "none"
    /\ UPSCAYL_PATH = "found"
    /\ ffmpeg_available = TRUE
    /\ res_fit = NoFit
    /\ worker_prompt = NoPrompt
    /\ \E c \in 1..MaxCores, g \in 0..MaxAccel, e \in BOOLEAN :
          worker_calc = Calc(c, g, e, 0)

\* line 589: recommended_workers = calculate_optimal_workers(...)
CalcWorkers ==
    /\ worker_calc.cpu_count > 0
    /\ worker_calc.recommended = 0
    /\ worker_calc' =
          [worker_calc EXCEPT !.recommended =
              calculate_optimal_workers(worker_calc.cpu_count, worker_calc.gpu_count,
                                        worker_calc.has_gpu_encoder)]
    /\ UNCHANGED <<MainVars, ProbeVars, PipeVars, VIDEO_ENCODER, res_fit, worker_prompt>>

SpecWorkers == InitWorkers /\ [][CalcWorkers]_vars

(* ---------------------------------------------------------------------- *)
(* The worker-count prompt as a function of the machine and the input      *)
(* ---------------------------------------------------------------------- *)
EnteredInputs ==
    {[kind |-> k, n |-> 0] : k \in {"empty", "text", "interrupt"}}
        \cup {[kind |-> "int", n |-> k] : k \in (0 - 1)..MaxEntered}

InitPrompt ==
    /\ NothingStarted
    /\ CleanDisk
    /\ main_pc = "run"
    /\ exit_status = "none"
    /\ UPSCAYL_PATH = "found"
    /\ ffmpeg_available = TRUE
    /\ worker_calc = NoCalc
    /\ res_fit = NoFit
    /\ \E c \in 1..MaxCores, g \in 0..MaxGpu, i \in EnteredInputs, cf \in Confirms :
          worker_prompt = Prompt(c, g, i, cf, 0, 0)

\* lines 583-618
AskWorkers ==
    /\ worker_prompt.cpu_count > 0
    /\ worker_prompt.recommended_workers = 0
    /\ LET has_gpu_encoder == VIDEO_ENCODER \in {"h264_nvenc", "h264_amf"}
           recommended_workers ==
               calculate_optimal_workers(worker_prompt.cpu_count,
                                         worker_prompt.gpu_count, has_gpu_encoder)
       IN  worker_prompt' =
              [worker_prompt EXCEPT
                  !.recommended_workers = recommended_workers,
                  !.num_workers =
                      prompt_workers(recommended_workers, worker_prompt.cpu_count,
                                     worker_prompt.worker_input, worker_prompt.confirm)]
    /\ UNCHANGED <<MainVars, ProbeVars, PipeVars, VIDEO_ENCODER, worker_calc, res_fit>>

SpecPrompt == InitPrompt /\ [][AskWorkers]_vars

(* ---------------------------------------------------------------------- *)
(* The resolution fit of run_upscale (lines 483-513)                       *)
(*                                                                         *)
(* aspect_ratio = width / height is an IEEE 754 double, and so are the     *)
(* products and quotients formed with it; int() truncates them.  The       *)
(* double nearest to a / b is a / b + d / (b * 2^s) with s = 52 -          *)
(* floor(log2(a / b)) and d the signed remainder computed by DivError.     *)
(* For the sizes explored, an exact product or quotient that is not an     *)
(* integer lies at least 1 / MaxDim from the next integer, far more than   *)
(* the rounding error, so truncation gives its floor; one that is an       *)
(* integer K is truncated to K - 1 exactly when the double result falls    *)
(* below K, that is when the error exceeds half the distance from K to the *)
(* double just below it.                                                   *)
(* ---------------------------------------------------------------------- *)
\* fraction bits of a double
MantissaBits == 52

RECURSIVE Pow2(_)
Pow2(n) == IF n = 0 THEN 1 ELSE 2 * Pow2(n - 1)

\* (x * 2^n) mod m
RECURSIVE ShiftMod(_, _, _)
ShiftMod(x, n, m) == IF n = 0 THEN x % m ELSE ShiftMod((2 * x) % m, n - 1, m)

RECURSIVE Log2Up(_, _)
Log2Up(a, b) == IF 2 * b <= a THEN 1 + Log2Up(a, 2 * b) ELSE 0

RECURSIVE Log2Down(_, _)
Log2Down(a, b) == IF 2 * a >= b THEN 1 ELSE 1 + Log2Down(2 * a, b)

\* floor(log2(a / b)): the binary exponent of the double a / b
FloorLog2(a, b) == IF a >= b THEN Log2Up(a, b) ELSE 0 - Log2Down(a, b)

\* d: round to nearest, ties to the even significand
DivError(a, b) ==
    LET s == MantissaBits - FloorLog2(a, b)
        r == ShiftMod(a, s, b)
        odd == ShiftMod(a, s, 2 * b) >= b
    IN  IF 2 * r < b THEN 0 - r
        ELSE IF 2 * r > b THEN b - r
        ELSE IF odd THEN b - r ELSE 0 - r

\* the result of an operation whose exact value is K - err, err > 0 given as
\* errnum / (errden * 2^(52 - e)), is a double below K
RoundsBelow(K, errnum, errden, e) ==
    LET lk == FloorLog2(K, 1)
        sh == 1 + e + (IF K = Pow2(lk) THEN 1 ELSE 0)
    IN  errnum * Pow2(IF sh > 0 THEN sh ELSE 0)
            > errden * Pow2(lk + (IF sh < 0 THEN 0 - sh ELSE 0))

\* int(T * (a / b))
TruncMul(T, a, b) ==
    LET K == (T * a) \div b
        d == DivError(a, b)
    IN  IF (T * a) % b # 0 \/ d >= 0 THEN K
        ELSE IF RoundsBelow(K, T * (0 - d), b, FloorLog2(a, b)) THEN K - 1 ELSE K

\* int(T / (a / b))
TruncDiv(T, a, b) ==
    LET K == (T * b) \div a
        d == DivError(a, b)
    IN  IF (T * b) % a # 0 \/ d <= 0 THEN K
        ELSE IF RoundsBelow(K, K * d, a, FloorLog2(a, b)) THEN K - 1 ELSE K

\* RES_OPTIONS
RES_OPTIONS ==
    { [name |-> "HD", w |-> 1280, h |-> 720],
      [name |-> "FHD", w |-> 1920, h |-> 1080],
      [name |-> "4K", w |-> 3840, h |-> 2160],
      [name |-> "8K", w |-> 7680, h |-> 4320] }

\* (variant: the even rounding is left out)
make_even_skipped(n) == n

\* n - (n % 2)
make_even(n) == n - (n % 2)

\* lines 495-513.  The two doubles compared at line 497 are the roundings of
\* width / height and target_w / target_h, which are ordered as the exact
\* ratios are.
fit_resolution(width, height, target_w, target_h) ==
    LET wider == width * target_h > target_w * height
        from_height == TruncMul(target_h, width, height)
        from_width == TruncDiv(target_w, width, height)
        size == IF wider
                THEN IF from_height > target_w
                     THEN <<target_w, from_width>>
                     ELSE <<from_height, target_h>>
                ELSE IF from_width > target_h
                     THEN <<from_height, target_h>>
                     ELSE <<target_w, from_width>>
    IN  [final_width |-> make_even(size[1]), final_height |-> make_even(size[2])]

InitFit ==
    /\ NothingStarted
    /\ CleanDisk
    /\ main_pc = "run"
    /\ exit_status = "none"
    /\ UPSCAYL_PATH = "found"
    /\ ffmpeg_available = TRUE
    /\ worker_calc = NoCalc
    /\ worker_prompt = NoPrompt
    /\ \E W \in 1..MaxDim, H \in 1..MaxDim, o \in RES_OPTIONS :
          res_fit = Fit(W, H, o.w, o.h, 0, 0, FALSE)

\* lines 483-513
FitResolution ==
    /\ res_fit.width > 0
    /\ ~res_fit.fitted
    /\ LET final == fit_resolution(res_fit.width, res_fit.height,
                                   res_fit.target_w, res_fit.target_h)
       IN  res_fit' = [res_fit EXCEPT !.final_width = final.final_width,
                                      !.final_height = final.final_height,
                                      !.fitted = TRUE]
    /\ UNCHANGED <<MainVars, ProbeVars, PipeVars, VIDEO_ENCODER, worker_calc, worker_prompt>>

SpecFit == InitFit /\ [][FitResolution]_vars

(* ---------------------------------------------------------------------- *)
(* Start-up: the module-level lookup of upscayl-bin and the __main__ block *)
(*                                                                         *)
(* SpecMain follows the script from its import to the submission of the    *)
(* initial batch (or to its exit, when it exits earlier).                  *)
(* ---------------------------------------------------------------------- *)
\* lines 41-48: if UPSCAYL_PATH is None: ... exit(1)
after_find_upscayl(path) == IF path = "None" THEN "exited" ELSE "check_ffmpeg"

\* (variant: the script goes on without ffmpeg)
after_check_ffmpeg_no_exit(available) == "detect"

\* lines 794-799: if not ffmpeg_available: ... exit(1)
after_check_ffmpeg(available) == IF available THEN "detect" ELSE "exited"

InitMain ==
    /\ NothingStarted
    /\ \E t \in Leftovers, u \in Leftovers :
          /\ dirs = [temp |-> t[1], upscaled |-> u[1]]
          /\ temp_files = t[2]
          /\ upscaled_files = u[2]
    /\ main_pc = "import"
    /\ exit_status = "none"
    /\ UPSCAYL_PATH = "unset"
    /\ ffmpeg_available = FALSE
    /\ worker_calc = NoCalc
    /\ res_fit = NoFit
    /\ worker_prompt = NoPrompt

\* lines 9-48: find_upscayl_path() returns a path or None
FindUpscayl ==
    /\ main_pc = "import"
    /\ \E path \in {"found", "None"} :
          /\ UPSCAYL_PATH' = path
          /\ main_pc' = after_find_upscayl(path)
          /\ exit_status' = IF after_find_upscayl(path) = "exited" THEN 1 ELSE exit_status
    /\ UNCHANGED <<CallVars, ProbeVars, PipeVars, VIDEO_ENCODER, ffmpeg_available>>

\* lines 275-289 and 794-801: ffmpeg -version exits 0, exits non-zero, or
\* the call raises (not found, timeout)
CheckFfmpeg ==
    /\ main_pc = "check_ffmpeg"
    /\ \E r \in {"zero", "nonzero", "raised"} :
          /\ ffmpeg_available' = (r = "zero")
          /\ main_pc' = after_check_ffmpeg(r = "zero")
          /\ exit_status' = IF after_check_ffmpeg(r = "zero") = "exited"
                            THEN 1 ELSE exit_status
    /\ UNCHANGED <<CallVars, ProbeVars, PipeVars, VIDEO_ENCODER, UPSCAYL_PATH>>

\* line 809: detect_video_encoder() is called
StartDetect ==
    /\ main_pc = "detect"
    /\ probe_pc = "idle"
    /\ probe_pc' = "list"
    /\ UNCHANGED <<MainVars, CallVars, PipeVars, VIDEO_ENCODER, listing, test_runs>>

\* lines 809-822: the prober has returned; run_upscale() is called
StartRun ==
    /\ main_pc = "detect"
    /\ probe_pc = "done"
    /\ main_pc' = "run"
    /\ pc' = "select"
    /\ UNCHANGED <<CallVars, ProbeVars, DiskVars, PoolVars, VIDEO_ENCODER, outcome,
                   frame_files, num_workers, error_msg, merged, exit_status,
                   UPSCAYL_PATH, ffmpeg_available>>

\* run_upscale has returned (status 0) or was left by an exception that
\* nothing catches (the interpreter prints the traceback and exits with 1)
EndMain ==
    /\ main_pc = "run"
    /\ pc = "done"
    /\ main_pc' = "exited"
    /\ exit_status' = IF outcome = "uncaught" THEN 1 ELSE 0
    /\ UNCHANGED <<CallVars, ProbeVars, PipeVars, VIDEO_ENCODER, UPSCAYL_PATH,
                   ffmpeg_available>>

NextMain ==
    \/ FindUpscayl
    \/ CheckFfmpeg
    \/ StartDetect
    \/ NextProbe
    \/ StartRun
    \/ SelectVideo
    \/ InitFolders
    \/ ExtractFrames
    \/ FindModels
    \/ ChooseModel
    \/ ListFrames
    \/ ChooseWorkers
    \/ SubmitInitial
    \/ UnexpectedError
    \/ Except
    \/ Finally
    \/ EndMain

SpecMain == InitMain /\ [][NextMain]_vars

(* ---------------------------------------------------------------------- *)
(* Properties of the frame pipeline                                        *)
(* ---------------------------------------------------------------------- *)
NonZeroExit(t) == ~futures[t].out.raised /\ futures[t].out.returncode # 0
Reported == pc \in {"except", "finally", "done"} /\ error_msg # NoReport

\* C1: every frame is submitted to the pool exactly once: no frame has two
\* submissions, and when the loop has drained the number of submissions
\* equals the number of extracted frames.
C1_SubmittedExactlyOnce ==
    /\ \A f \in 1..frame_files : Submissions(f) <= 1
    /\ pc = "drained" => Len(futures) = frame_files

\* C2: two calls that are both submitted and not yet finished are never for
\* the same frame (hence never write the same destination file).
C2_DistinctDestinations ==
    \A t, u \in Unfinished : t # u => futures[t].frame # futures[u].frame

\* C3: once the initial batch is submitted, the loop eventually ends with the
\* in-flight set empty, no call unfinished, and every extracted frame
\* collected at least once.
C3_DispatchDrains ==
    (pc = "dispatch") ~>
        (/\ pc = "drained"
         /\ future_to_frame = {}
         /\ Unfinished = {}
         /\ \A f \in 1..frame_files : \E t \in Collected : futures[t].frame = f)
C3_Witness ==
    /\ pc = "drained"
    /\ frame_files = 3
    /\ future_to_frame = {}
    /\ failed_frames # << >>
    /\ \A f \in 1..frame_files : \E t \in Collected : futures[t].frame = f

\* C4: the re-encode step runs only if every collected call returned exit
\* code 0 with its destination file present at collection, and never when a
\* failure has been recorded.
C4_MergeOnlyWhenAllOk ==
    merged =>
        /\ failed_frames = << >>
        /\ \A t \in DOMAIN futures :
              /\ futures[t].st = "collected"
              /\ ~futures[t].out.raised
              /\ futures[t].out.returncode = 0
              /\ futures[t].seen
C4_Witness == merged /\ frame_files = 2 /\ num_workers = 2 /\ outcome = "success"

\* C5 as stated: once the report is raised, every frame with a non-zero exit
\* code appears in it with its truncated diagnostic text.
C5_EveryNonZeroExitReported ==
    Reported =>
        \A t \in DOMAIN futures :
            NonZeroExit(t) =>
                \E i \in DOMAIN error_msg.lines :
                    error_msg.lines[i] =
                        [frame |-> futures[t].frame,
                         text |-> Prefix(futures[t].out.stderr, StderrShown)]

\* C5 as amended: the report counts every failure record; a frame with a
\* non-zero exit code appears in it with the first 100 characters of its
\* diagnostic text when its record is among the first five records, and
\* otherwise its record lies beyond the fifth and is counted in the rest.
C5_NonZeroExitShownOrCounted ==
    Reported =>
        /\ error_msg.count = Len(failed_frames)
        /\ error_msg.count = Len(error_msg.lines) + error_msg.more
        /\ Len(error_msg.lines) <= ReportShown
        /\ \A t \in DOMAIN futures :
              NonZeroExit(t) =>
                  \/ \E i \in DOMAIN error_msg.lines :
                        error_msg.lines[i] =
                            [frame |-> futures[t].frame,
                             text |-> Prefix(futures[t].out.stderr, StderrShown)]
                  \/ /\ error_msg.more > 0
                     /\ \E i \in (ReportShown + 1)..Len(failed_frames) :
                           /\ failed_frames[i].frame = futures[t].frame
                           /\ failed_frames[i].returncode = futures[t].out.returncode
                           /\ failed_frames[i].stderr = futures[t].out.stderr
C5_Witness ==
    /\ Reported
    /\ error_msg.more > 0
    /\ \E t \in DOMAIN futures :
          /\ NonZeroExit(t)
          /\ \E i \in DOMAIN error_msg.lines :
                /\ error_msg.lines[i].frame = futures[t].frame
                /\ error_msg.lines[i].text.len = StderrShown
                /\ futures[t].out.stderr.len > StderrShown

\* C6: a run that has created the two temporary directories ends with both
\* removed, whatever its outcome.
C6_TempDirsRemoved ==
    (pc = "done" /\ created) => (dirs = NoDirs /\ temp_files = {} /\ upscaled_files = {})
C6_Witness ==
    /\ pc = "done"
    /\ created
    /\ outcome = "error"
    /\ error_msg # NoReport
    /\ dirs = NoDirs

\* C10 as stated: the number of in-flight calls never exceeds the worker count.
C10_InFlightAtMostW == Cardinality(future_to_frame) <= num_workers

\* C10 as amended: the number of in-flight calls never exceeds twice the
\* worker count.
C10_InFlightAtMostTwiceW == Cardinality(future_to_frame) <= BatchFactor * num_workers
C10_Witness ==
    /\ pc = "dispatch"
    /\ frame_files = 3
    /\ num_workers = 1
    /\ Cardinality(future_to_frame) = 2
    /\ work_queue > 0

(* ---------------------------------------------------------------------- *)
(* Properties of the encoder prober                                        *)
(* ---------------------------------------------------------------------- *)
VendorErrors(encoder_name) ==
    IF encoder_name = "h264_nvenc" THEN nvenc_errors ELSE amf_errors

\* A test encode passed: it ran to the end with exit code 0 and none of the
\* vendor's failure substrings occurs in its output, whatever the case.
PassedTest(t) ==
    /\ t.run.raised = "no"
    /\ t.run.returncode = 0
    /\ \A k \in VendorErrors(t.encoder) : ~Contains(Lower(k), Lower(t.run.stderr))

Tested(encoder_name) == \E i \in DOMAIN test_runs : test_runs[i].encoder = encoder_name

\* C7: the prober terminates, its result is one of the three encoders, and a
\* hardware encoder is returned only if its test encode of this run passed.
C7_ProberResult ==
    /\ <>(probe_pc = "done")
    /\ [](probe_pc = "done" =>
            /\ VIDEO_ENCODER \in Encoders
            /\ VIDEO_ENCODER # "libx264" =>
                  \E i \in DOMAIN test_runs :
                      /\ test_runs[i].encoder = VIDEO_ENCODER
                      /\ PassedTest(test_runs[i]))
C7_Witness ==
    /\ probe_pc = "done"
    /\ VIDEO_ENCODER = "h264_amf"
    /\ Len(test_runs) = 2
    /\ test_runs[1].run.returncode = 0
    /\ ~PassedTest(test_runs[1])
    /\ PassedTest(test_runs[2])

\* C8: when the encoder list names neither hardware encoder, no test encode
\* is started and the result is libx264.
C8_NoCandidateNoTest ==
    (/\ probe_pc # "list"
     /\ listing.raised = "no"
     /\ ~Contains(NVENC, listing.stdout)
     /\ ~Contains(AMF, listing.stdout))
        => /\ test_runs = << >>
           /\ probe_pc = "done" => VIDEO_ENCODER = "libx264"
C8_Witness ==
    /\ probe_pc = "done"
    /\ listing = Listing("no", 0, OutUpper)
    /\ test_runs = << >>
    /\ VIDEO_ENCODER = "libx264"

\* C9: candidates are tried in the order NVENC, AMF, software; each is tested
\* at most once; the AMF test runs only when NVENC is not advertised or its
\* test failed; the first candidate whose test passes is the result.
C9_PriorityOrder ==
    /\ \A i, j \in DOMAIN test_runs :
           i < j => (test_runs[i].encoder = "h264_nvenc" /\ test_runs[j].encoder = "h264_amf")
    /\ Tested("h264_amf") =>
           \/ ~Contains(NVENC, listing.stdout)
           \/ (test_runs[1].encoder = "h264_nvenc" /\ ~PassedTest(test_runs[1]))
    /\ probe_pc = "done" =>
           \A i \in DOMAIN test_runs :
               PassedTest(test_runs[i]) =>
                   (VIDEO_ENCODER = test_runs[i].encoder /\ i = Len(test_runs))
C9_Witness ==
    /\ probe_pc = "done"
    /\ VIDEO_ENCODER = "h264_nvenc"
    /\ Contains(AMF, listing.stdout)
    /\ Len(test_runs) = 1
    /\ PassedTest(test_runs[1])

(* ---------------------------------------------------------------------- *)
(* Failure handling of the dispatch loop                                   *)
(* ---------------------------------------------------------------------- *)
FrameCollected(f) ==
    \E t \in DOMAIN futures : futures[t].frame = f /\ futures[t].st = "collected"
AllCollected == \A t \in DOMAIN futures : futures[t].st = "collected"
LoopLeft == pc \in {"drained", "merge", "except", "finally", "done"} /\ futures # << >>

\* C11: a failed frame does not stop the dispatch: whatever has failed, when
\* the loop is left the work queue is exhausted, the in-flight set is empty,
\* and every frame has been submitted and collected; the aggregate error
\* exists only after that, and it is raised at most once (it is the report
\* of the final failure list and never changes).
C11_FailureNeverStopsDispatch ==
    /\ LoopLeft =>
          /\ work_queue = frame_files
          /\ future_to_frame = {}
          /\ AllCollected
          /\ \A f \in 1..frame_files : FrameCollected(f)
    /\ error_msg # NoReport =>
          /\ LoopLeft
          /\ pc # "drained"
          /\ error_msg = build_error_msg(failed_frames)

\* the loop was left after the first two collections raised and a frame
\* outside the initial batch was still dispatched and collected
C11_Witness ==
    /\ error_msg # NoReport
    /\ frame_files = 3
    /\ Len(futures) > 3
    /\ futures[1].out.raised
    /\ futures[2].out.raised
    /\ FrameCollected(3)

Records(f) == {i \in DOMAIN failed_frames : failed_frames[i].frame = f}

\* C12: no retry and one record per failure: a frame has at most one failure
\* record (also when its call exits non-zero and leaves no output file), and
\* no upscale of a frame is outstanding once the frame has a failure record.
C12_OneRecordNoRetry ==
    /\ \A f \in 1..frame_files : Cardinality(Records(f)) <= 1
    /\ \A t \in DOMAIN futures :
          futures[t].st = "pending" => Records(futures[t].frame) = {}

(* ---------------------------------------------------------------------- *)
(* Properties of calculate_optimal_workers                                 *)
(* ---------------------------------------------------------------------- *)
Calculated == worker_calc.recommended # 0

C14_WithinLimits ==
    Calculated =>
        /\ worker_calc.recommended >= 1
        /\ worker_calc.recommended <= 8
        /\ worker_calc.recommended <= worker_calc.cpu_count

\* more than 8 accelerators and more than 8 cores: the ceiling decides
C14_Witness ==
    /\ worker_calc.recommended = 8
    /\ worker_calc.gpu_count > 8
    /\ worker_calc.cpu_count > 8

\* the rule as the specification states it
StatedRule(c, g) ==
    LET base == IF g = 0 THEN (75 * c) \div 100
                ELSE IF g = 1
                     THEN (IF c \div 2 < 4
                           THEN (IF c \div 2 < 2 THEN 2 ELSE c \div 2)
                           ELSE 4)
                     ELSE (IF g < c THEN g ELSE c)
        capped == IF base > 8 THEN 8 ELSE base
    IN  IF capped > c THEN c ELSE capped

\* C15: for cpu_count >= 2 the result is the stated rule (no accelerator: 75%
\* of the cores rounded down; one: min(cores div 2, 4) raised to 2; several:
\* min(accelerators, cores); then capped at 8 and at the core count), whatever
\* has_gpu_encoder is; 2 accelerators and 8 cores give 2.
C15_StatedRule ==
    /\ (Calculated /\ worker_calc.cpu_count >= 2) =>
           worker_calc.recommended
               = StatedRule(worker_calc.cpu_count, worker_calc.gpu_count)
    /\ (Calculated /\ worker_calc.cpu_count = 8 /\ worker_calc.gpu_count = 2) =>
           worker_calc.recommended = 2

\* no accelerator, 7 cores: 5 workers, with has_gpu_encoder set
C15_Witness ==
    /\ worker_calc.cpu_count = 7
    /\ worker_calc.gpu_count = 0
    /\ worker_calc.has_gpu_encoder
    /\ worker_calc.recommended = 5

(* ---------------------------------------------------------------------- *)
(* Properties of the resolution fit                                        *)
(* ---------------------------------------------------------------------- *)
\* C16: the fitted size is inside the target box in both axes and both of
\* its dimensions are even.
C16_FitsBoxAndEven ==
    res_fit.fitted =>
        /\ res_fit.final_width <= res_fit.target_w
        /\ res_fit.final_height <= res_fit.target_h
        /\ res_fit.final_width % 2 = 0
        /\ res_fit.final_height % 2 = 0

\* a source wider than the box whose height, computed from the box width,
\* came out odd and was lowered by one
C16_Witness ==
    /\ res_fit.fitted
    /\ res_fit.width * res_fit.target_h > res_fit.target_w * res_fit.height
    /\ res_fit.final_width = res_fit.target_w
    /\ TruncDiv(res_fit.target_w, res_fit.width, res_fit.height) % 2 = 1
    /\ res_fit.final_height + 1
          = TruncDiv(res_fit.target_w, res_fit.width, res_fit.height)

Abs(n) == IF n < 0 THEN 0 - n ELSE n
\* the box width decides the exact fit (scale target_w / width), else the height
WidthBound == res_fit.target_w * res_fit.height <= res_fit.target_h * res_fit.width

\* C17: one fitted dimension equals the box's, and each fitted dimension is
\* less than 2 pixels away from the exact aspect-preserving fit in the box
\* (target_w x target_w * height / width, or target_h * width / height x
\* target_h).
C17_WithinTwoPixels ==
    res_fit.fitted =>
        /\ \/ res_fit.final_width = res_fit.target_w
           \/ res_fit.final_height = res_fit.target_h
        /\ IF WidthBound
           THEN /\ Abs(res_fit.final_width - res_fit.target_w) < 2
                /\ Abs(res_fit.final_height * res_fit.width
                         - res_fit.target_w * res_fit.height) < 2 * res_fit.width
           ELSE /\ Abs(res_fit.final_height - res_fit.target_h) < 2
                /\ Abs(res_fit.final_width * res_fit.height
                         - res_fit.target_h * res_fit.width) < 2 * res_fit.height

(* ---------------------------------------------------------------------- *)
(* Properties of the start-up                                              *)
(* ---------------------------------------------------------------------- *)
UpscaylMissing == UPSCAYL_PATH = "None"
FfmpegMissing == main_pc \notin {"import", "check_ffmpeg"} /\ ~ffmpeg_available

\* C18: when upscayl-bin is not found at import or the ffmpeg check fails,
\* the process has exited with status 1, the encoder prober has not run, no
\* temporary directory has been created, run_upscale has not been entered
\* (so no frame was extracted) and nothing has been submitted to a pool.
C18_MissingToolFatal ==
    (UpscaylMissing \/ FfmpegMissing) =>
        /\ main_pc = "exited"
        /\ exit_status = 1
        /\ probe_pc = "idle"
        /\ test_runs = << >>
        /\ pc = "idle"
        /\ ~created
        /\ futures = << >>

\* upscayl-bin was found, the ffmpeg check failed
C18_Witness ==
    /\ UPSCAYL_PATH = "found"
    /\ FfmpegMissing
    /\ main_pc = "exited"

(* ---------------------------------------------------------------------- *)
(* Properties of one collection                                            *)
(* ---------------------------------------------------------------------- *)
\* what the collection of task t saw: the fetch raised, the exit code was
\* non-zero, the destination file did not exist
Raised(t) == futures[t].out.raised
MissingOutput(t) == ~futures[t].out.raised /\ ~futures[t].seen
Failing(t) == Raised(t) \/ NonZeroExit(t) \/ MissingOutput(t)

\* C19: the frames in the failure list are exactly the frames of the
\* collected tasks whose fetch raised, whose exit code was non-zero or whose
\* destination file was missing at collection; the list holds one record per
\* such observation and nothing else, so a task with exit code 0 and an
\* existing file adds nothing and one with exit code 0 and no file is failed.
C19_FailedIffBadResult ==
    /\ {failed_frames[i].frame : i \in DOMAIN failed_frames}
          = {futures[t].frame : t \in {u \in Collected : Failing(u)}}
    /\ Len(failed_frames)
          = Cardinality({t \in Collected : Raised(t)})
            + Cardinality({t \in Collected : NonZeroExit(t)})
            + Cardinality({t \in Collected : MissingOutput(t)})

\* frame 1 exited with 0 and left no file: it is in the list; frame 2 exited
\* with 0 and its file exists: it is not
C19_Witness ==
    /\ Len(futures) >= 2
    /\ futures[1].st = "collected"
    /\ futures[1].out.returncode = 0
    /\ MissingOutput(1)
    /\ Records(1) # {}
    /\ futures[2].st = "collected"
    /\ ~Failing(2)
    /\ Records(2) = {}

(* ---------------------------------------------------------------------- *)
(* Properties of the passes of the dispatch loop                           *)
(* ---------------------------------------------------------------------- *)
\* a pass of the outer loop: the in-flight dict changes inside the loop
LoopPass == pc = "dispatch" /\ pc' = "dispatch" /\ future_to_frame' # future_to_frame

\* C20: each pass of the loop collects exactly one task and, when the work
\* queue still has an item, submits exactly one task in the same pass, which
\* leaves the size of the in-flight set unchanged; when the queue is exhausted
\* it submits nothing and the set shrinks by one.  So inside the loop the set
\* has its initial size min(2 * num_workers, N) as long as the queue has items.
C20_OnePerPass ==
    /\ [](pc = "dispatch" /\ work_queue < frame_files
            => Cardinality(future_to_frame)
                 = Min(BatchFactor * num_workers, frame_files))
    /\ [][LoopPass =>
            /\ Cardinality(Collected') = Cardinality(Collected) + 1
            /\ pbar' = pbar + 1
            /\ IF work_queue < frame_files
               THEN /\ Len(futures') = Len(futures) + 1
                    /\ work_queue' = work_queue + 1
                    /\ Cardinality(future_to_frame') = Cardinality(future_to_frame)
               ELSE /\ Len(futures') = Len(futures)
                    /\ work_queue' = work_queue
                    /\ Cardinality(future_to_frame')
                          = Cardinality(future_to_frame) - 1]_vars

\* three frames, one worker: the queue is exhausted and the in-flight set has
\* shrunk from its initial size 2 to 1 inside the loop
C20_Witness ==
    /\ pc = "dispatch"
    /\ frame_files = 3
    /\ num_workers = 1
    /\ work_queue = frame_files
    /\ Cardinality(future_to_frame) = 1

(* ---------------------------------------------------------------------- *)
(* Failure of the encoder listing                                          *)
(* ---------------------------------------------------------------------- *)
Listed == probe_pc \in {"nvenc", "amf", "fallback", "done"}
ListingFailed == Listed /\ (listing.raised # "no" \/ listing.returncode # 0)

\* C21: when the encoder-listing command exits non-zero, times out or raises,
\* no test encode is run and no hardware encoder is ever selected, and the
\* prober returns, with libx264.
C21_ListingFailureFallsBack ==
    /\ [](ListingFailed =>
            /\ test_runs = << >>
            /\ VIDEO_ENCODER \in {"None", "libx264"}
            /\ (probe_pc = "done" => VIDEO_ENCODER = "libx264"))
    /\ (ListingFailed ~> (probe_pc = "done" /\ VIDEO_ENCODER = "libx264"))

\* the listing exited non-zero although its output names both hardware
\* encoders; the prober has returned libx264
C21_Witness ==
    /\ probe_pc = "done"
    /\ listing.raised = "no"
    /\ listing.returncode # 0
    /\ listing.stdout = OutBoth
    /\ VIDEO_ENCODER = "libx264"

(* ---------------------------------------------------------------------- *)
(* Size of the in-flight set                                               *)
(* ---------------------------------------------------------------------- *)
InUpscaleStep == pc \in {"dispatch", "drained"}

\* C22: during the upscale step the number of submitted and uncollected
\* tasks is at most min(2 * W, N), and once the initial batch is submitted no
\* step increases it: a collection removes one task and adds at most one.
C22_InFlightBounded ==
    /\ [](InUpscaleStep =>
            Cardinality(future_to_frame) <= Min(2 * num_workers, frame_files))
    /\ [][pc = "dispatch" =>
            /\ Cardinality(future_to_frame') <= Cardinality(future_to_frame)
            /\ Cardinality(future_to_frame' \ future_to_frame) <= 1
            /\ (future_to_frame' # future_to_frame =>
                    Cardinality(future_to_frame \ future_to_frame') = 1)]_vars

\* three frames, one worker: a collection has replaced one of the two tasks
\* of the initial batch and the set is still at its bound
C22_Witness ==
    /\ pc = "dispatch"
    /\ frame_files = 3
    /\ num_workers = 1
    /\ Collected # {}
    /\ Cardinality(future_to_frame) = 2

(* ---------------------------------------------------------------------- *)
(* Accounting of the pool tasks                                            *)
(* ---------------------------------------------------------------------- *)
\* C23: no result is lost or counted twice: the tasks submitted are the
\* tasks collected plus the tasks in flight (and no task is both), the
\* progress counter is the number of collections, a collected task is never
\* collected again, and when the loop has ended every submitted task has been
\* collected.
C23_NoResultLostOrDoubled ==
    /\ [](/\ Len(futures) = Cardinality(Collected) + Cardinality(future_to_frame)
          /\ Collected \cap future_to_frame = {}
          /\ future_to_frame \subseteq DOMAIN futures
          /\ pending_count = Len(futures)
          /\ pbar = Cardinality(Collected)
          /\ (LoopLeft => Collected = DOMAIN futures))
    /\ [][/\ Collected \subseteq Collected'
          /\ Cardinality(Collected') <= Cardinality(Collected) + 1
          /\ pbar' - pbar = Cardinality(Collected') - Cardinality(Collected)]_vars

\* the loop has ended after a collection that raised and one that did not
C23_Witness ==
    /\ LoopLeft
    /\ \E t \in Collected : futures[t].out.raised
    /\ \E t \in Collected : ~futures[t].out.raised
    /\ pbar = Len(futures)
    /\ completed_count < pbar

(* ---------------------------------------------------------------------- *)
(* Properties of the worker-count prompt                                   *)
(* ---------------------------------------------------------------------- *)
Asked == worker_prompt.recommended_workers # 0
\* the inputs after which the recommendation is used
FallsBack ==
    \/ worker_prompt.worker_input.kind \in {"empty", "text", "interrupt"}
    \/ worker_prompt.worker_input.n < 1
    \/ /\ worker_prompt.worker_input.n > 2 * worker_prompt.cpu_count
       /\ worker_prompt.confirm # "y"

\* C24: whatever is entered at the prompt, the worker count used is at least
\* 1, and it is the recommended count when the input is empty, not a number,
\* below 1, interrupted, or above twice the core count and not confirmed
\* with y.
C24_PromptNeverBelowOne ==
    Asked =>
        /\ worker_prompt.num_workers >= 1
        /\ (FallsBack =>
               worker_prompt.num_workers = worker_prompt.recommended_workers)

\* 0 was entered on a machine with 4 cores and no accelerator: 3 workers
C24_Witness ==
    /\ Asked
    /\ worker_prompt.worker_input = [kind |-> "int", n |-> 0]
    /\ worker_prompt.cpu_count = 4
    /\ worker_prompt.gpu_count = 0
    /\ worker_prompt.num_workers = 3

(* ---------------------------------------------------------------------- *)
(* Files of an earlier run                                                 *)
(* ---------------------------------------------------------------------- *)
\* frames whose upscaled file some task of this run has written
WrittenThisRun ==
    {futures[t].frame : t \in {u \in DOMAIN futures : futures[u].out.wrote}}
AfterFolders == created /\ pc # "done"

\* C25: in a run that finds files of an earlier run, when extraction is about
\* to begin both directories exist and are empty; from then on every file in
\* UPSCALED_DIR was written by a task of this run, and the frames dispatched
\* are the frames present in TEMP_DIR, none of them older than the extraction.
C25_StaleDirsRecreatedEmpty ==
    /\ pc = "extract" =>
          /\ dirs = BothDirs
          /\ temp_files = {}
          /\ upscaled_files = {}
    /\ AfterFolders =>
          /\ upscaled_files \subseteq WrittenThisRun
          /\ \A t \in DOMAIN futures : futures[t].frame \in temp_files

\* extraction is about to begin, both directories are there and empty
C25_Witness ==
    /\ pc = "extract"
    /\ created
    /\ dirs = BothDirs
    /\ temp_files = {}
    /\ upscaled_files = {}
====
